---- MODULE Spec2Model ----
(***************************************************************************)
(* satchel: parse manifest -> pull images -> retag locally -> save to a    *)
(* compressed archive -> render the load script.  One sequential run of    *)
(* main() is modelled, one action per fallible step.  The container        *)
(* daemon, the file system and the TOML file are the environment: every    *)
(* outcome they can produce is a nondeterministic choice.                  *)
(***************************************************************************)
EXTENDS Integers, Sequences, FiniteSets, TLC

VARIABLES
    inputFile,       \* state of the path given by -in: "missing" | "malformed" | "ok"
    manifest,        \* the [[image]] entries of the TOML file, as written
    includePublic,   \* the -public flag
    dockerEnvOk,     \* whether docker.NewEnvClient() accepts the environment
    pc,              \* position of main()
    fatal,           \* "" or the log.Fatal site that ended the process
    descriptor,      \* descriptor.Images after loadDescriptor
    idx,             \* loop index of pullImages / tagImages (1-based)
    clients,         \* number of daemon clients created
    calls,           \* the daemon calls and file operations made so far, in order
    imageSummaries,  \* result of cli.ImageList
    imageIds,        \* result of findImageIds
    readerCloser,    \* export stream: "none" | "open" | "closed"
    outFile,         \* output file handle: "none" | "open" | "closed"
    gzipWriter,      \* compressor: "none" | "open" | "closed"
    copyErr,         \* err after io.Copy
    archive,         \* archive on disk: "absent" | "empty" | "partial" | "complete"
    script           \* load script on disk: state "absent" | "partial" | "written",
                     \* and its command lines once written

vars == <<inputFile, manifest, includePublic, dockerEnvOk, pc, fatal, descriptor,
          idx, clients, calls, imageSummaries, imageIds, readerCloser, outFile,
          gzipWriter, copyErr, archive, script>>

(***************************************************************************)
(* Bounds of the model.                                                    *)
(***************************************************************************)
MaxImages == 2
MaxSummaries == 2
MaxRepoTags == 1

Registries == {"", "gcr.io"}
Repositories == {"java"}
RawTags == {"", "8"}

(***************************************************************************)
(* Program constants.                                                      *)
(***************************************************************************)
loadScriptName == "load-images.sh"
outputFile == "satchel-images.tgz"
HuffmanOnly == -2
BestCompression == 9

\* type Image struct
Image == [Registry : Registries, Repository : Repositories, Tag : RawTags,
          Public : BOOLEAN]

SeqsUpTo(S, n) == UNION {[1..k -> S] : k \in 0..n}

\* func (i Image) ImageName() string
ImageName(i) ==
    LET registry == IF i.Registry # "" THEN i.Registry \o "/" ELSE i.Registry
    IN  registry \o i.Repository \o ":" \o i.Tag

\* func (i Image) ImageNameNoRegistry() string
ImageNameNoRegistry(i) == i.Repository \o ":" \o i.Tag

\* loadDescriptor without the tag defaulting loop
loadDescriptor_NoDefault(images) == images

\* loadDescriptor: the tag defaulting loop
loadDescriptor(images) ==
    [k \in 1..Len(images) |->
        IF images[k].Tag = "" THEN [images[k] EXCEPT !.Tag = "latest"]
        ELSE images[k]]

\* func containsTag(tag string, tags []string) bool
RECURSIVE containsTagFrom(_, _, _)
containsTagFrom(tag, tags, k) ==
    IF k > Len(tags) THEN FALSE
    ELSE IF tags[k] = tag THEN TRUE
    ELSE containsTagFrom(tag, tags, k + 1)

containsTag(tag, tags) == containsTagFrom(tag, tags, 1)

\* inner loop of findImageIds: index of the image that makes the loop break, 0 if none
RECURSIVE matchingImage(_, _, _)
matchingImage(images, imageSummary, k) ==
    IF k > Len(images) THEN 0
    ELSE IF images[k].Public /\ ~includePublic
         THEN matchingImage(images, imageSummary, k + 1)
    ELSE IF containsTag(ImageNameNoRegistry(images[k]), imageSummary.RepoTags)
         THEN k
    ELSE matchingImage(images, imageSummary, k + 1)

\* outer loop of findImageIds, keeping for each appended ID the image that matched
RECURSIVE findMatchesFrom(_, _, _)
findMatchesFrom(images, summaries, s) ==
    IF s > Len(summaries) THEN <<>>
    ELSE LET by == IF summaries[s].ParentID = ""
                   THEN matchingImage(images, summaries[s], 1)
                   ELSE 0
         IN  IF by # 0
             THEN <<[ID |-> summaries[s].ID, by |-> by]>>
                      \o findMatchesFrom(images, summaries, s + 1)
             ELSE findMatchesFrom(images, summaries, s + 1)

findMatches(images, summaries) == findMatchesFrom(images, summaries, 1)

\* findImageIds without the `break`: one append per matching manifest image
RECURSIVE findImageIds_NoBreakFrom(_, _, _, _)
findImageIds_NoBreakFrom(images, summaries, s, k) ==
    IF s > Len(summaries) THEN <<>>
    ELSE IF k > Len(images) \/ summaries[s].ParentID # ""
         THEN findImageIds_NoBreakFrom(images, summaries, s + 1, 1)
    ELSE IF ~(images[k].Public /\ ~includePublic)
            /\ containsTag(ImageNameNoRegistry(images[k]), summaries[s].RepoTags)
         THEN <<summaries[s].ID>> \o findImageIds_NoBreakFrom(images, summaries, s, k + 1)
    ELSE findImageIds_NoBreakFrom(images, summaries, s, k + 1)

findImageIds_NoBreak(images, summaries) ==
    findImageIds_NoBreakFrom(images, summaries, 1, 1)

\* func findImageIds(images []Image, imageSummaries []types.ImageSummary) []string
findImageIds(images, summaries) ==
    LET m == findMatches(images, summaries)
    IN  [k \in 1..Len(m) |-> m[k].ID]

\* one iteration of the first {{ range }} of loadScriptTemplate
TagLines(i) ==
    << <<"echo", "echo \"Tagging " \o i.Repository \o ":" \o i.Tag \o " -> ${repository}/"
                    \o i.Repository \o ":" \o i.Tag \o "\"">>,
       <<"tag", "docker tag " \o i.Repository \o ":" \o i.Tag \o " ${repository}/"
                    \o i.Repository \o ":" \o i.Tag>> >>

\* one iteration of the second {{ range }} of loadScriptTemplate
PushLines(i) ==
    << <<"echo", "echo \"Pushing ${repository}/" \o i.Repository \o ":" \o i.Tag \o "\"">>,
       <<"push", "docker push ${repository}/" \o i.Repository \o ":" \o i.Tag>> >>

\* first {{ range $key, $value := .Descriptor.Images }} ... {{ end }}
RECURSIVE RangeTag(_, _)
RangeTag(images, k) ==
    IF k > Len(images) THEN <<>>
    ELSE TagLines(images[k]) \o RangeTag(images, k + 1)

\* second {{ range $key, $value := .Descriptor.Images }} ... {{ end }}
RECURSIVE RangePush(_, _)
RangePush(images, k) ==
    IF k > Len(images) THEN <<>>
    ELSE PushLines(images[k]) \o RangePush(images, k + 1)

\* the template with the public filter of the other stages applied to both ranges
RECURSIVE RangeTag_Filtered(_, _)
RangeTag_Filtered(images, k) ==
    IF k > Len(images) THEN <<>>
    ELSE IF images[k].Public /\ ~includePublic THEN RangeTag_Filtered(images, k + 1)
    ELSE TagLines(images[k]) \o RangeTag_Filtered(images, k + 1)

RECURSIVE RangePush_Filtered(_, _)
RangePush_Filtered(images, k) ==
    IF k > Len(images) THEN <<>>
    ELSE IF images[k].Public /\ ~includePublic THEN RangePush_Filtered(images, k + 1)
    ELSE PushLines(images[k]) \o RangePush_Filtered(images, k + 1)

loadScriptTemplate_Filtered(out, images) ==
    << <<"shebang", "#!/bin/bash">>,
       <<"assign", "repository=${1}">>,
       <<"assign", "imageFile=" \o out>>,
       <<"check", "if [ \"$repository\" == \"\" ]; then echo \"Repository not specified\"; exit 1; fi">>,
       <<"echo", "echo Loading Images from ${imageFile}">>,
       <<"load", "docker load < ${imageFile}">> >>
    \o RangeTag_Filtered(images, 1)
    \o RangePush_Filtered(images, 1)

\* loadScriptTemplate executed on {OutputFile, Descriptor}: the command lines
loadScriptTemplate(out, images) ==
    << <<"shebang", "#!/bin/bash">>,
       <<"assign", "repository=${1}">>,
       <<"assign", "imageFile=" \o out>>,
       <<"check", "if [ \"$repository\" == \"\" ]; then echo \"Repository not specified\"; exit 1; fi">>,
       <<"echo", "echo Loading Images from ${imageFile}">>,
       <<"load", "docker load < ${imageFile}">> >>
    \o RangeTag(images, 1)
    \o RangePush(images, 1)

\* gzip.NewWriterLevel(outFile, level) returns an error for an invalid level only
NewWriterLevelErr(level) == level < HuffmanOnly \/ level > BestCompression

(***************************************************************************)
(* The environment: manifests a TOML file can hold, and the image          *)
(* summaries the daemon can report.                                        *)
(***************************************************************************)
Manifests == SeqsUpTo(Image, MaxImages)

ImageID(n) == "sha256:" \o ToString(n)

DaemonTags ==
    UNION {{ImageName(i), ImageNameNoRegistry(i)} :
              i \in {[j EXCEPT !.Tag = "latest"] : j \in Image} \cup {j \in Image : j.Tag # ""}}

ImageSummary == [ID : {ImageID(n) : n \in 1..MaxSummaries},
                 ParentID : {"", "sha256:0"},
                 RepoTags : SeqsUpTo(DaemonTags, MaxRepoTags)]

\* the daemon reports every image once: IDs are pairwise distinct
DaemonSummaries ==
    {s \in SeqsUpTo(ImageSummary, MaxSummaries) :
        \A a, b \in 1..Len(s) : a # b => s[a].ID # s[b].ID}

Call(op, img, name, ok) == [op |-> op, img |-> img, name |-> name, ok |-> ok]

(***************************************************************************)
(* Initial state: flags parsed, nothing done.                              *)
(***************************************************************************)
Init ==
    /\ inputFile \in {"missing", "malformed", "ok"}
    /\ manifest \in (IF inputFile = "ok" THEN Manifests ELSE {<<>>})
    /\ includePublic \in BOOLEAN
    /\ dockerEnvOk \in (IF inputFile = "ok" THEN BOOLEAN ELSE {TRUE})
    /\ pc = "validate"
    /\ fatal = ""
    /\ descriptor = <<>>
    /\ idx = 0
    /\ clients = 0
    /\ calls = <<>>
    /\ imageSummaries = <<>>
    /\ imageIds = <<>>
    /\ readerCloser = "none"
    /\ outFile = "none"
    /\ gzipWriter = "none"
    /\ copyErr = FALSE
    /\ archive = "absent"
    /\ script = [state |-> "absent", lines |-> <<>>]

\* log.Fatal / log.Fatalf: os.Exit(1), deferred calls do not run
Fatal(site) == pc' = "fatal" /\ fatal' = site

\* main() calling tagImages before pullImages
StageAfter_TagFirst(stage) ==
    CASE stage = "validate" -> "load"
      [] stage = "load"     -> "tag"
      [] stage = "tag"      -> "pull"
      [] stage = "pull"     -> "list"
      [] stage = "copy"     -> "script"
      [] stage = "script"   -> "done"

\* main(): the stage that follows each stage
StageAfter(stage) ==
    CASE stage = "validate" -> "load"
      [] stage = "load"     -> "pull"
      [] stage = "pull"     -> "tag"
      [] stage = "tag"      -> "list"
      [] stage = "copy"     -> "script"
      [] stage = "script"   -> "done"

\* first statement of pullImages, tagImages and saveImages
ClientPc(stage) == stage \o "_client"

\* the loop of pullImages / tagImages: position after finishing iteration k
LoopPc(stage, k) ==
    IF k >= Len(descriptor) THEN ClientPc(StageAfter(stage)) ELSE stage

\* validate without the existence check
statErr_Never == FALSE

\* validate: `_, err := os.Stat(inputFile); err != nil`
statErr == inputFile = "missing"

\* loadDescriptor: `tree, err := toml.LoadFile(inputFile); err != nil`
loadFileErr == inputFile # "ok"

\* validate()
Validate ==
    /\ pc = "validate"
    /\ IF statErr
       THEN Fatal("validate")
       ELSE pc' = StageAfter("validate") /\ fatal' = fatal
    /\ UNCHANGED <<inputFile, manifest, includePublic, dockerEnvOk, descriptor, idx,
                   clients, calls, imageSummaries, imageIds, readerCloser, outFile,
                   gzipWriter, copyErr, archive, script>>

\* loadDescriptor()
LoadDescriptor ==
    /\ pc = "load"
    /\ IF loadFileErr
       THEN Fatal("loadDescriptor") /\ descriptor' = descriptor
       ELSE /\ descriptor' = loadDescriptor(manifest)
            /\ pc' = ClientPc(StageAfter("load"))
            /\ fatal' = fatal
    /\ UNCHANGED <<inputFile, manifest, includePublic, dockerEnvOk, idx,
                   clients, calls, imageSummaries, imageIds, readerCloser, outFile,
                   gzipWriter, copyErr, archive, script>>

\* newDockerClient(), called first by pullImages, tagImages and saveImages
NewDockerClient ==
    /\ pc \in {"pull_client", "tag_client", "list_client"}
    /\ IF ~dockerEnvOk
       THEN Fatal("newDockerClient") /\ UNCHANGED <<clients, idx>>
       ELSE /\ clients' = clients + 1
            /\ fatal' = fatal
            /\ idx' = 1
            /\ pc' = CASE pc = "pull_client" -> LoopPc("pull", 0)
                       [] pc = "tag_client"  -> LoopPc("tag", 0)
                       [] pc = "list_client" -> "list"
    /\ UNCHANGED <<inputFile, manifest, includePublic, dockerEnvOk, descriptor,
                   calls, imageSummaries, imageIds, readerCloser, outFile,
                   gzipWriter, copyErr, archive, script>>

\* pullImages without the public filter
PullSkips_Never(image) == FALSE

\* pullImages: `if image.Public && !includePublic { continue }`
PullSkips(image) == image.Public /\ ~includePublic

\* tagImages: `if image.Public && !includePublic { continue }`
TagSkips(image) == image.Public /\ ~includePublic

\* pullImages dropping the error of cli.ImagePull, as tagImages does
PullErrFatal_Dropped(err) == FALSE

\* pullImages: `if err != nil { log.Fatal(err) }` after cli.ImagePull
PullErrFatal(err) == err

\* tagImages checking the error of cli.ImageTag the way pullImages does
TagErrFatal_Checked(err) == err

\* tagImages: the error returned by cli.ImageTag is not bound to anything
TagErrFatal(err) == FALSE

\* one iteration of the loop of pullImages
PullImage ==
    /\ pc = "pull"
    /\ idx \in 1..Len(descriptor)
    /\ LET image == descriptor[idx]
       IN  IF PullSkips(image)
           THEN /\ idx' = idx + 1
                /\ pc' = LoopPc("pull", idx)
                /\ UNCHANGED <<calls, fatal>>
           ELSE \E ok \in BOOLEAN :
                /\ calls' = Append(calls, Call("pull", idx, ImageName(image), ok))
                /\ IF PullErrFatal(~ok)
                   THEN Fatal("pullImages") /\ idx' = idx
                   ELSE idx' = idx + 1 /\ pc' = LoopPc("pull", idx) /\ fatal' = fatal
    /\ UNCHANGED <<inputFile, manifest, includePublic, dockerEnvOk, descriptor,
                   clients, imageSummaries, imageIds, readerCloser, outFile,
                   gzipWriter, copyErr, archive, script>>

\* one iteration of the loop of tagImages: the result of cli.ImageTag is dropped
TagImage ==
    /\ pc = "tag"
    /\ idx \in 1..Len(descriptor)
    /\ LET image == descriptor[idx]
           src == ImageName(image)
           dest == ImageNameNoRegistry(image)
       IN  IF TagSkips(image)
           THEN /\ idx' = idx + 1
                /\ pc' = LoopPc("tag", idx)
                /\ UNCHANGED <<calls, fatal>>
           ELSE \E ok \in BOOLEAN :
                /\ calls' = Append(calls, Call("tag", idx, <<src, dest>>, ok))
                /\ IF TagErrFatal(~ok)
                   THEN Fatal("tagImages") /\ idx' = idx
                   ELSE idx' = idx + 1 /\ pc' = LoopPc("tag", idx) /\ fatal' = fatal
    /\ UNCHANGED <<inputFile, manifest, includePublic, dockerEnvOk, descriptor,
                   clients, imageSummaries, imageIds, readerCloser, outFile,
                   gzipWriter, copyErr, archive, script>>

\* saveImages: cli.ImageList, then findImageIds
ImageList ==
    /\ pc = "list"
    /\ \E ok \in BOOLEAN :
        /\ calls' = Append(calls, Call("list", 0, "", ok))
        /\ IF ok
           THEN \E s \in DaemonSummaries :
                   /\ imageSummaries' = s
                   /\ imageIds' = findImageIds(descriptor, s)
                   /\ pc' = "save"
                   /\ fatal' = fatal
           ELSE Fatal("ImageList") /\ UNCHANGED <<imageSummaries, imageIds>>
    /\ UNCHANGED <<inputFile, manifest, includePublic, dockerEnvOk, descriptor, idx,
                   clients, readerCloser, outFile, gzipWriter, copyErr, archive, script>>

\* saveImages: cli.ImageSave(ctx, imageIds)
ImageSave ==
    /\ pc = "save"
    /\ \E ok \in BOOLEAN :
        /\ calls' = Append(calls, Call("save", 0, imageIds, ok))
        /\ IF ok
           THEN readerCloser' = "open" /\ pc' = "create" /\ fatal' = fatal
           ELSE Fatal("ImageSave") /\ readerCloser' = readerCloser
    /\ UNCHANGED <<inputFile, manifest, includePublic, dockerEnvOk, descriptor, idx,
                   clients, imageSummaries, imageIds, outFile, gzipWriter, copyErr,
                   archive, script>>

\* saveImages: os.Create(outputFile)
CreateOutFile ==
    /\ pc = "create"
    /\ \E ok \in BOOLEAN :
        /\ calls' = Append(calls, Call("create", 0, outputFile, ok))
        /\ IF ok
           THEN outFile' = "open" /\ archive' = "empty" /\ pc' = "gzip" /\ fatal' = fatal
           ELSE Fatal("os.Create") /\ UNCHANGED <<outFile, archive>>
    /\ UNCHANGED <<inputFile, manifest, includePublic, dockerEnvOk, descriptor, idx,
                   clients, imageSummaries, imageIds, readerCloser, gzipWriter, copyErr,
                   script>>

\* saveImages: gzip.NewWriterLevel(outFile, gzip.BestCompression)
NewGzipWriter ==
    /\ pc = "gzip"
    /\ IF NewWriterLevelErr(BestCompression)
       THEN Fatal("gzip.NewWriterLevel") /\ gzipWriter' = gzipWriter
       ELSE gzipWriter' = "open" /\ pc' = "copy" /\ fatal' = fatal
    /\ UNCHANGED <<inputFile, manifest, includePublic, dockerEnvOk, descriptor, idx,
                   clients, calls, imageSummaries, imageIds, readerCloser, outFile,
                   copyErr, archive, script>>

\* saveImages: `_, err = io.Copy(gzipWriter, readerCloser)` is the last statement,
\* err is not read
CopyErrFatal(err) == FALSE

\* the deferred calls of saveImages, run when it returns
DeferredClose ==
    /\ readerCloser' = "closed"
    /\ gzipWriter' = "closed"
    /\ outFile' = outFile

\* saveImages: io.Copy(gzipWriter, readerCloser), then return
CopyAndReturn ==
    /\ pc = "copy"
    /\ \E ok \in BOOLEAN :
        /\ calls' = Append(calls, Call("copy", 0, outputFile, ok))
        /\ copyErr' = ~ok
        /\ archive' = IF ok THEN "complete" ELSE "partial"
        /\ IF CopyErrFatal(~ok)
           THEN Fatal("io.Copy") /\ UNCHANGED <<readerCloser, gzipWriter, outFile>>
           ELSE DeferredClose /\ pc' = StageAfter("copy") /\ fatal' = fatal
    /\ UNCHANGED <<inputFile, manifest, includePublic, dockerEnvOk, descriptor, idx,
                   clients, imageSummaries, imageIds, script>>

\* generateScript(*descriptor)
GenerateScript ==
    /\ pc = "script"
    /\ LET lines == loadScriptTemplate(outputFile, descriptor)
       IN  \E outcome \in {"ok", "open", "write"} :
           /\ calls' = Append(calls, Call("script", 0, loadScriptName, outcome = "ok"))
           /\ CASE outcome = "ok" ->
                     /\ script' = [state |-> "written", lines |-> lines]
                     /\ pc' = StageAfter("script")
                     /\ fatal' = fatal
                [] outcome = "open" ->
                     \* f is nil, t.Execute(f, data) fails
                     /\ script' = script
                     /\ Fatal("generateScript")
                [] outcome = "write" ->
                     \* the file holds some proper prefix of the text, not tracked
                     /\ script' = [state |-> "partial", lines |-> <<>>]
                     /\ Fatal("generateScript")
    /\ UNCHANGED <<inputFile, manifest, includePublic, dockerEnvOk, descriptor, idx,
                   clients, imageSummaries, imageIds, readerCloser, outFile, gzipWriter,
                   copyErr, archive>>

Next ==
    \/ Validate
    \/ LoadDescriptor
    \/ NewDockerClient
    \/ PullImage
    \/ TagImage
    \/ ImageList
    \/ ImageSave
    \/ CreateOutFile
    \/ NewGzipWriter
    \/ CopyAndReturn
    \/ GenerateScript

Spec == Init /\ [][Next]_vars

(***************************************************************************)
(* Vocabulary of the properties.                                           *)
(***************************************************************************)
PcRank(p) ==
    CASE p = "validate"    -> 0
      [] p = "load"        -> 1
      [] p = "pull_client" -> 2
      [] p = "pull"        -> 3
      [] p = "tag_client"  -> 4
      [] p = "tag"         -> 5
      [] p = "list_client" -> 6
      [] p = "list"        -> 7
      [] p = "save"        -> 8
      [] p = "create"      -> 9
      [] p = "gzip"        -> 10
      [] p = "copy"        -> 11
      [] p = "script"      -> 12
      [] p = "done"        -> 13

FatalRank(site) ==
    CASE site = "validate"            -> 0
      [] site = "loadDescriptor"      -> 1
      [] site = "newDockerClient"     -> 2 + 2 * clients
      [] site = "pullImages"          -> 3
      [] site = "tagImages"           -> 5
      [] site = "ImageList"           -> 7
      [] site = "ImageSave"           -> 8
      [] site = "os.Create"           -> 9
      [] site = "gzip.NewWriterLevel" -> 10
      [] site = "io.Copy"             -> 11
      [] site = "generateScript"      -> 12

\* how far main() got: the position it is at, or the one it died at
Position == IF pc = "fatal" THEN FatalRank(fatal) ELSE PcRank(pc)

Loaded == Position >= 2
PullStageOver == Position >= 4
TagStageOver == Position >= 6
Resolved == Position >= 8

Images == 1..Len(descriptor)
CallsOf(op) == {c \in 1..Len(calls) : calls[c].op = op}

\* the names of image k, spelled out from its fields
LocalName(k) == descriptor[k].Repository \o ":" \o descriptor[k].Tag
FullName(k) ==
    IF descriptor[k].Registry = "" THEN LocalName(k)
    ELSE descriptor[k].Registry \o "/" \o LocalName(k)

\* image k passes the public filter of this run
Passes(k) == ~descriptor[k].Public \/ includePublic

TagSet(s) == {s.RepoTags[j] : j \in 1..Len(s.RepoTags)}
Summaries == 1..Len(imageSummaries)
IdSet == {imageIds[j] : j \in 1..Len(imageIds)}

\* C1 as stated: with -public off, no pull call carries the fully-qualified name of a
\* public image, no tag call is made for it and the resolver selects no ID through
\* it; with -public on, a public image is pulled, tagged and matched like any other.
C1_AsStated ==
    \A k \in Images : descriptor[k].Public =>
        IF ~includePublic
        THEN /\ \A c \in CallsOf("pull") : calls[c].name # FullName(k)
             /\ \A c \in CallsOf("tag") : calls[c].img # k
             /\ Resolved =>
                  \A m \in 1..Len(findMatches(descriptor, imageSummaries)) :
                      findMatches(descriptor, imageSummaries)[m].by # k
        ELSE /\ PullStageOver =>
                  \E c \in CallsOf("pull") :
                      calls[c].img = k /\ calls[c].name = FullName(k)
             /\ TagStageOver =>
                  \E c \in CallsOf("tag") :
                      calls[c].img = k /\ calls[c].name = <<FullName(k), LocalName(k)>>
             /\ Resolved =>
                  \A s \in Summaries :
                      (imageSummaries[s].ParentID = ""
                          /\ LocalName(k) \in TagSet(imageSummaries[s]))
                      => imageSummaries[s].ID \in IdSet

\* C1, amended: with -public off, no pull call and no tag call is made for a public
\* image (a pull call carries its fully-qualified name only when it is made for a
\* non-public manifest image of the same name), every selected ID is selected through
\* an image that is not public, and the resolver matches no summary through a public
\* image; with -public on, a public image is pulled, tagged and matched like any other.
C1_PublicFilter ==
    /\ \A k \in Images : descriptor[k].Public =>
        IF ~includePublic
        THEN /\ \A c \in CallsOf("pull") :
                   /\ calls[c].img # k
                   /\ calls[c].name = FullName(k) =>
                         /\ ~descriptor[calls[c].img].Public
                         /\ FullName(calls[c].img) = FullName(k)
             /\ \A c \in CallsOf("tag") : calls[c].img # k
             /\ Resolved =>
                  \A m \in 1..Len(findMatches(descriptor, imageSummaries)) :
                      findMatches(descriptor, imageSummaries)[m].by # k
        ELSE /\ PullStageOver =>
                  \E c \in CallsOf("pull") :
                      calls[c].img = k /\ calls[c].name = FullName(k)
             /\ TagStageOver =>
                  \E c \in CallsOf("tag") :
                      calls[c].img = k /\ calls[c].name = <<FullName(k), LocalName(k)>>
             /\ Resolved =>
                  \A s \in Summaries :
                      (imageSummaries[s].ParentID = ""
                          /\ LocalName(k) \in TagSet(imageSummaries[s]))
                      => imageSummaries[s].ID \in IdSet
    /\ (Resolved /\ ~includePublic) =>
          \A s \in Summaries : imageSummaries[s].ID \in IdSet =>
              \E j \in Images :
                  ~descriptor[j].Public /\ LocalName(j) \in TagSet(imageSummaries[s])

\* a run without -public over a manifest holding a public and a non-public image has
\* pulled and tagged only the latter, and a root summary tagged with the public
\* image's local name was not selected
C1_Witness ==
    /\ pc = "done"
    /\ ~includePublic
    /\ Len(descriptor) = 2
    /\ descriptor[1].Public /\ ~descriptor[2].Public
    /\ LocalName(1) # LocalName(2)
    /\ Cardinality(CallsOf("pull")) = 1
    /\ Cardinality(CallsOf("tag")) = 1
    /\ Len(imageSummaries) = 2
    /\ imageSummaries[1].ParentID = "" /\ imageSummaries[1].RepoTags = <<LocalName(1)>>
    /\ imageSummaries[2].ParentID = "" /\ imageSummaries[2].RepoTags = <<LocalName(2)>>
    /\ imageIds = <<imageSummaries[2].ID>>

\* summary s is one the resolver has to select: a root image carrying the local name
\* of a manifest image that passes the public filter
Selected(s) ==
    /\ s.ParentID = ""
    /\ \E k \in Images : Passes(k) /\ LocalName(k) \in TagSet(s)

\* C2: findImageIds returns exactly the IDs of the selected summaries, in the order
\* the daemon listed them and each once; no ID of a summary with a parent is returned.
C2_ResolverExact ==
    Resolved =>
        /\ LET sel == SelectSeq(imageSummaries, Selected)
           IN  imageIds = [j \in 1..Len(sel) |-> sel[j].ID]
        /\ \A a, b \in 1..Len(imageIds) : a # b => imageIds[a] # imageIds[b]
        /\ \A s \in Summaries :
               imageSummaries[s].ParentID # "" => imageSummaries[s].ID \notin IdSet

\* two manifest images share a local name, both pass the filter, the daemon lists the
\* higher ID first, one summary has a parent: the root one is selected, once
C2_Witness ==
    /\ Resolved
    /\ Len(descriptor) = 2
    /\ Passes(1) /\ Passes(2)
    /\ descriptor[1] # descriptor[2]
    /\ LocalName(1) = LocalName(2)
    /\ Len(imageSummaries) = 2
    /\ imageSummaries[1].ID = ImageID(2)
    /\ imageSummaries[1].ParentID = ""
    /\ imageSummaries[1].RepoTags = <<LocalName(1)>>
    /\ imageSummaries[2].ParentID # ""
    /\ imageSummaries[2].RepoTags = <<LocalName(1)>>
    /\ imageIds = <<ImageID(2)>>

\* control has left saveImages after the export stream was opened
LeftSaveImages ==
    \/ pc \in {"script", "done"}
    \/ pc = "fatal" /\ fatal \in {"os.Create", "gzip.NewWriterLevel", "io.Copy",
                                  "generateScript"}

\* C3: once control has left saveImages, neither the export stream nor the output
\* file is still open.
C3_BothReleased ==
    LeftSaveImages => readerCloser # "open" /\ outFile # "open"

\* C4: a failed ImageSave, os.Create or io.Copy ends the process, and the script
\* stage is never started.
C4_ArchiveFailureFatal ==
    \A c \in CallsOf("save") \cup CallsOf("create") \cup CallsOf("copy") :
        ~calls[c].ok =>
            /\ pc = "fatal"
            /\ CallsOf("script") = {}
            /\ script.state = "absent"

LinesOf(kind) == {l \in 1..Len(script.lines) : script.lines[l][1] = kind}
IsTagLine(l) == l[1] = "tag"
IsPushLine(l) == l[1] = "push"

\* C5: the written script holds one tag command and one push command per manifest
\* image, public or not and whatever -public is, each group in manifest order, and
\* all tag commands before all push commands.
C5_ScriptListsAll ==
    /\ pc = "done" => script.state = "written"
    /\ script.state = "written" =>
        LET tags == SelectSeq(script.lines, IsTagLine)
            pushes == SelectSeq(script.lines, IsPushLine)
        IN  /\ tags = [k \in Images |->
                         <<"tag", "docker tag " \o LocalName(k)
                                     \o " ${repository}/" \o LocalName(k)>>]
            /\ pushes = [k \in Images |->
                         <<"push", "docker push ${repository}/" \o LocalName(k)>>]
            /\ \A a \in LinesOf("tag"), b \in LinesOf("push") : a < b

\* a run without -public whose manifest holds a public image first: the image was
\* never pulled, and the script tags and pushes it first
C5_Witness ==
    /\ pc = "done"
    /\ ~includePublic
    /\ Len(descriptor) = 2
    /\ descriptor[1].Public /\ ~descriptor[2].Public
    /\ LocalName(1) # LocalName(2)
    /\ \A c \in CallsOf("pull") : calls[c].img # 1
    /\ Cardinality(LinesOf("tag")) = 2
    /\ Cardinality(LinesOf("push")) = 2

\* C6: when the manifest path does not exist the run dies in validate, with no daemon
\* client created, no daemon call or file operation made and no file written.
C6_MissingInputStopsFirst ==
    inputFile = "missing" =>
        /\ pc \in {"validate", "fatal"}
        /\ pc = "fatal" => fatal = "validate"
        /\ clients = 0
        /\ calls = <<>>
        /\ descriptor = <<>>
        /\ archive = "absent"
        /\ script.state = "absent"

C6_Witness == inputFile = "missing" /\ pc = "fatal" /\ fatal = "validate"

\* C7: a failed pull is the last thing the run does: the process is dead in
\* pullImages, every call before the failed one is a successful pull of an earlier
\* image, and no client for a later stage, archive or script exists.
C7_PullErrorStops ==
    \A c \in CallsOf("pull") : ~calls[c].ok =>
        /\ pc = "fatal" /\ fatal = "pullImages"
        /\ c = Len(calls)
        /\ \A b \in 1..(c - 1) :
              calls[b].op = "pull" /\ calls[b].ok /\ calls[b].img < calls[c].img
        /\ clients = 1
        /\ archive = "absent"
        /\ script.state = "absent"

\* the second of two pulls failed, after the first succeeded
C7_Witness ==
    /\ pc = "fatal"
    /\ Len(descriptor) = 2
    /\ Len(calls) = 2
    /\ calls[1].op = "pull" /\ calls[1].ok /\ calls[1].img = 1
    /\ calls[2].op = "pull" /\ ~calls[2].ok /\ calls[2].img = 2

\* the tag the record of manifest entry k must carry once loaded
LoadedTag(k) == IF manifest[k].Tag = "" THEN "latest" ELSE manifest[k].Tag
LoadedLocal(k) == manifest[k].Repository \o ":" \o LoadedTag(k)
LoadedFull(k) ==
    IF manifest[k].Registry = "" THEN LoadedLocal(k)
    ELSE manifest[k].Registry \o "/" \o LoadedLocal(k)

\* C8: once the manifest is loaded every record has a non-empty tag, "latest" where
\* the entry had none and the entry's own otherwise, the other fields as written; and
\* every later stage uses that tag: pull names, tag sources and targets, the names
\* the resolver matches on, the script's commands.
C8_TagDefaulted ==
    Loaded =>
        /\ Len(descriptor) = Len(manifest)
        /\ \A k \in Images :
              /\ descriptor[k].Tag # ""
              /\ descriptor[k] = [manifest[k] EXCEPT !.Tag = LoadedTag(k)]
        /\ \A c \in CallsOf("pull") : calls[c].name = LoadedFull(calls[c].img)
        /\ \A c \in CallsOf("tag") :
              calls[c].name = <<LoadedFull(calls[c].img), LoadedLocal(calls[c].img)>>
        /\ \A s \in Summaries : imageSummaries[s].ID \in IdSet =>
              \E k \in Images : LoadedLocal(k) \in TagSet(imageSummaries[s])
        /\ script.state = "written" =>
              SelectSeq(script.lines, IsTagLine) =
                  [k \in Images |->
                      <<"tag", "docker tag " \o LoadedLocal(k)
                                  \o " ${repository}/" \o LoadedLocal(k)>>]

\* an entry without a tag went through the whole run as repository:latest and was
\* selected through that name
C8_Witness ==
    /\ pc = "done"
    /\ Len(manifest) = 2
    /\ manifest[1].Tag = "" /\ manifest[1].Registry # "" /\ manifest[2].Tag # ""
    /\ descriptor[1].Tag = "latest"
    /\ \E c \in CallsOf("pull") : calls[c].img = 1 /\ calls[c].name = "gcr.io/java:latest"
    /\ \E c \in CallsOf("tag") : calls[c].img = 1
    /\ Len(imageSummaries) = 1
    /\ imageSummaries[1].RepoTags = <<"java:latest">>
    /\ Len(imageIds) = 1

OpRank(op) ==
    CASE op = "pull"   -> 1
      [] op = "tag"    -> 2
      [] op = "list"   -> 3
      [] op = "save"   -> 4
      [] op = "create" -> 5
      [] op = "copy"   -> 6
      [] op = "script" -> 7

PassingImages == {k \in Images : Passes(k)}

\* C9: the stages run in the order load, pull, tag, save, script, each complete before
\* the next starts: the calls made so far are ordered pull, tag, list, save, file
\* creation, copy, script; nothing is called before the manifest is loaded; the first
\* tag call finds every filtered image pulled, the list call finds every filtered
\* image tagged; and the script is written only after saveImages has returned.
C9_StageOrder ==
    /\ calls # <<>> => Loaded
    /\ \A a, b \in 1..Len(calls) : a < b =>
          /\ OpRank(calls[a].op) <= OpRank(calls[b].op)
          /\ OpRank(calls[a].op) >= 3 => OpRank(calls[a].op) < OpRank(calls[b].op)
          /\ calls[a].op = calls[b].op => calls[a].img < calls[b].img
    /\ CallsOf("tag") # {} =>
          {calls[c].img : c \in {d \in CallsOf("pull") : calls[d].ok}} = PassingImages
    /\ CallsOf("list") # {} =>
          {calls[c].img : c \in CallsOf("tag")} = PassingImages
    /\ (CallsOf("script") # {} \/ script.state # "absent") =>
          /\ CallsOf("copy") # {}
          /\ gzipWriter = "closed"
          /\ readerCloser = "closed"
          /\ archive \in {"partial", "complete"}

\* a complete run over two images that pass the filter
C9_Witness ==
    /\ pc = "done"
    /\ Len(descriptor) = 2
    /\ Len(calls) = 9
    /\ calls[2].op = "pull" /\ calls[3].op = "tag" /\ calls[5].op = "list"
    /\ calls[6].op = "save" /\ calls[9].op = "script"

FailedTags == {c \in CallsOf("tag") : ~calls[c].ok}

\* C10: a failed tag call never ends the run: the tag stage goes on to tag every
\* remaining filtered image and the run enters saveImages, so that it can only die
\* at a later step and otherwise writes the script; and an image whose local name
\* no daemon summary carries is matched by the resolver to nothing, the run going on.
C10_TagFailureIgnored ==
    /\ FailedTags # {} =>
          /\ pc = "fatal" => fatal \in {"ImageList", "ImageSave", "os.Create",
                                        "generateScript"}
          /\ pc = "done" => script.state = "written"
          /\ TagStageOver => {calls[c].img : c \in CallsOf("tag")} = PassingImages
    /\ \A c \in FailedTags : Resolved =>
          LET k == calls[c].img
          IN  (\A s \in Summaries : LocalName(k) \notin TagSet(imageSummaries[s])) =>
                 /\ \A m \in 1..Len(findMatches(descriptor, imageSummaries)) :
                        findMatches(descriptor, imageSummaries)[m].by # k
                 /\ \A s \in Summaries : imageSummaries[s].ID \in IdSet =>
                        \E j \in PassingImages :
                            j # k /\ LocalName(j) \in TagSet(imageSummaries[s])
                 /\ fatal \notin {"tagImages", "ImageList"}

\* the tag of the first image failed, the second was still tagged, the daemon lists
\* only the second under its local name, and the run completed with that one ID
C10_Witness ==
    /\ pc = "done"
    /\ Len(descriptor) = 2
    /\ LocalName(1) # LocalName(2)
    /\ \E c \in FailedTags : calls[c].img = 1
    /\ \E c \in CallsOf("tag") : calls[c].img = 2 /\ calls[c].ok
    /\ Len(imageSummaries) = 1
    /\ imageSummaries[1].ParentID = ""
    /\ imageSummaries[1].RepoTags = <<LocalName(2)>>
    /\ imageIds = <<imageSummaries[1].ID>>

====
